---- MODULE Spec2Model ----
(***************************************************************************)
(* Model of heat/engine/resources/autoscaling.py: InstanceGroup.resize    *)
(* and handle_delete, AutoScalingGroup.handle_create / adjust,             *)
(* ScalingPolicy.alarm and CooldownMixin.                                  *)
(*                                                                         *)
(* Python strings are sequences of one-character strings, so that          *)
(* ','.join, str.split(',') and sorted() on a list of strings are modelled *)
(* by what they do to the characters.  A member name (a Python str) is     *)
(* such a sequence; a Python list of names is a sequence of them.          *)
(***************************************************************************)
EXTENDS Integers, Sequences, FiniteSets, TLC

\* ---------------------------------------------------------------- bounds
MaxCap  == 11     \* largest target handed to resize
MaxOps   == 3     \* direct resize calls in one behaviour
MaxCalls == 2     \* calls on an AutoScalingGroup in one behaviour
MaxFail  == 1     \* faults (failed create / destroy, crash) in one behaviour
MaxTime  == 2     \* the clock stops ticking here
MaxAlarms == 3    \* calls on a group with a policy in one behaviour

\* ------------------------------------------------------- python strings
None == <<"None">>          \* Python None; no string contains this token

GroupName == <<"G">>        \* self.name of the group

Digits == <<"0", "1", "2", "3", "4", "5", "6", "7", "8", "9">>

\* code point of a character, as Python compares str
Ord(c) ==
  CASE c = "," -> 44
    [] c = "-" -> 45
    [] c = "G" -> 71
    [] OTHER   -> 48 + (CHOOSE d \in 0..9 : Digits[d + 1] = c)

\* '%d' % x for x >= 0
RECURSIVE Decimal(_)
Decimal(x) ==
  IF x < 10 THEN <<Digits[x + 1]>>
  ELSE Decimal(x \div 10) \o <<Digits[(x % 10) + 1]>>

\* '%s-%d' % (self.name, x)
Name(x) == GroupName \o <<"-">> \o Decimal(x)

\* s.split(',')
RECURSIVE Split(_)
Split(s) ==
  IF \E i \in 1..Len(s) : s[i] = ","
  THEN LET i == CHOOSE j \in 1..Len(s) :
                  s[j] = "," /\ \A k \in 1..(j - 1) : s[k] # ","
       IN  <<SubSeq(s, 1, i - 1)>> \o Split(SubSeq(s, i + 1, Len(s)))
  ELSE <<s>>

\* ','.join(l)
RECURSIVE Join(_)
Join(l) ==
  IF l = <<>> THEN <<>>
  ELSE IF Len(l) = 1 THEN l[1]
  ELSE l[1] \o <<",">> \o Join(Tail(l))

\* a < b on Python str: lexicographic by code point, a proper prefix first
RECURSIVE StrLess(_, _)
StrLess(a, b) ==
  IF a = <<>> THEN b # <<>>
  ELSE IF b = <<>> THEN FALSE
  ELSE IF a[1] = b[1] THEN StrLess(Tail(a), Tail(b))
  ELSE Ord(a[1]) < Ord(b[1])

RECURSIVE Insert(_, _)
Insert(a, l) ==
  IF l = <<>> THEN <<a>>
  ELSE IF StrLess(a, l[1]) THEN <<a>> \o l
  ELSE <<l[1]>> \o Insert(a, Tail(l))

\* sorted(l) on a list of str
RECURSIVE Sorted(_)
Sorted(l) == IF l = <<>> THEN <<>> ELSE Insert(l[1], Sorted(Tail(l)))

\* the list after l.remove(v): the first occurrence of v is dropped
RECURSIVE Remove(_, _)
Remove(l, v) ==
  IF l = <<>> THEN <<>>
  ELSE IF l[1] = v THEN Tail(l)
  ELSE <<l[1]>> \o Remove(Tail(l), v)

\* list(reversed(l))
RECURSIVE Reversed(_)
Reversed(l) == IF l = <<>> THEN <<>> ELSE Reversed(Tail(l)) \o <<l[1]>>

\* l[n:] for n >= 0
SliceFrom(l, n) == SubSeq(l, n + 1, Len(l))

\* inst_list as resize and adjust read it from resource_id
InstList(rid) == IF rid = None THEN <<>> ELSE Sorted(Split(rid))

Capacity(rid) == Len(InstList(rid))

\* ------------------------------------------------------------ properties
Unset == <<>>               \* an optional property that is not configured
Some(v) == <<v>>

MinSizes          == {0, 1}
MaxSizes          == {2, 3}
DesiredCapacities == {Unset, Some(0), Some(1), Some(2), Some(5)}
Cooldowns         == {Unset, Some(-1), Some(2)}
LoadBalancers     == {<<>>, <<"LB">>}

Workers == {1, 2}           \* invocations that can be in flight

VARIABLES
  props,        \* self.properties of the group
  resource_id,  \* self.resource_id: None or the comma-joined member names
  metadata,     \* self.metadata of the group: {} or {timestamp: reason}
  now,          \* the clock read by timeutils
  exists,       \* names of the instances that exist behind _make_instance
  lb,           \* id_list last passed to reload, Unset before the first
  policy,       \* self.properties of the ScalingPolicy aimed at the group
  policy_metadata, \* self.metadata of the policy: {} or {timestamp: reason}
  frame,        \* per invocation: position and locals of resize / adjust
  req,          \* the top-level call most recently made
  rid0,         \* resource_id when that call was made
  meta0,        \* metadata when that call was made
  pmeta0,       \* policy_metadata when that call was made
  now0,         \* the clock when that call was made
  last0,        \* last_change when that call was made
  repeats,      \* how the previous call ended if it was this same call
  calls,        \* create / destroy calls made since that call, in order
  writes,       \* resource_id_set calls made since that call
  reloads,      \* reload calls made since that call
  adjusts,      \* group.adjust calls made by that call
  reported,     \* exits that adjust calls took, with the value returned
  asked,        \* per invocation: its latest call, the capacity then, the
                \* number of the call, was another invocation in flight
  outcome,      \* how that call ended
  errored,      \* some call so far raised
  last_change,  \* when and how the last adjust that changed capacity ended
  ops,          \* top-level calls made so far
  fails         \* faults injected so far

prog == <<props, policy, resource_id, metadata, exists, lb>>
hist == <<req, rid0, meta0, pmeta0, now0, last0, repeats, calls, writes,
          reloads, adjusts, reported, asked, outcome, errored, last_change,
          ops>>
vars == <<props, resource_id, metadata, now, exists, lb, policy,
          policy_metadata, frame,
          req, rid0, meta0, pmeta0, now0, last0, repeats, calls, writes,
          reloads, adjusts, reported, asked, outcome, errored, last_change,
          ops, fails>>

IdleFrame ==
  [pc |-> "idle", op |-> "none", new_capacity |-> 0, raise_on_error |-> FALSE,
   inst_list |-> <<>>, x |-> 0, victims |-> <<>>, cur |-> <<>>,
   adjustment |-> 0, adjustment_type |-> "none"]

NoReq == [op |-> "none", arg |-> 0, type |-> "none", roe |-> FALSE]

\* what an invocation has not asked yet
NoAsk == [op |-> "none", arg |-> 0, type |-> "none", capacity |-> 0,
          seq |-> 0, busy |-> FALSE]

\* a stack without a ScalingPolicy
NoPolicy == [ScalingAdjustment |-> 0, AdjustmentType |-> "none",
             Cooldown |-> Unset]

\* a stack holding a group with properties in P and a policy in Q
InitStack(P, Q) ==
  /\ props \in P
  /\ policy \in Q
  /\ policy_metadata = {}
  /\ pmeta0 = {}
  /\ adjusts = 0
  /\ reported = {}
  /\ asked = [p \in Workers |-> NoAsk]
  /\ resource_id = None
  /\ metadata = {}
  /\ now = 0
  /\ exists = {}
  /\ lb = Unset
  /\ frame = [p \in Workers |-> IdleFrame]
  /\ req = NoReq
  /\ rid0 = None
  /\ meta0 = {}
  /\ now0 = 0
  /\ last0 = Unset
  /\ repeats = "other"
  /\ last_change = Unset
  /\ calls = <<>>
  /\ writes = 0
  /\ reloads = 0
  /\ outcome = "none"
  /\ errored = FALSE
  /\ ops = 0
  /\ fails = 0

InitWith(P) == InitStack(P, {NoPolicy})

\* an OS::Heat::InstanceGroup: no bounds, no cooldown
InstanceGroupProps ==
  [MinSize : {0}, MaxSize : {MaxCap}, DesiredCapacity : {Unset},
   Cooldown : {Unset}, LoadBalancerNames : LoadBalancers]

\* an AWS::AutoScaling::AutoScalingGroup behind a load balancer
AutoScalingGroupProps ==
  { c \in [MinSize : MinSizes, MaxSize : MaxSizes,
           DesiredCapacity : DesiredCapacities, Cooldown : Cooldowns,
           LoadBalancerNames : {<<"LB">>}] : c.MinSize <= c.MaxSize }

\* a create or destroy call may fail while the failure budget lasts
Results == IF fails < MaxFail THEN {TRUE, FALSE} ELSE {TRUE}

\* bookkeeping shared by every top-level call
Called(p, r) ==
  /\ frame[p].pc = "idle"
  /\ ops' = ops + 1
  /\ req' = r
  /\ rid0' = resource_id
  /\ meta0' = metadata
  /\ pmeta0' = policy_metadata
  /\ asked' = [asked EXCEPT ![p] =
                 [op |-> r.op, arg |-> r.arg, type |-> r.type,
                  capacity |-> Capacity(resource_id), seq |-> ops + 1,
                  busy |-> \E q \in Workers \ {p} : frame[q].pc # "idle"]]
  /\ now0' = now
  /\ last0' = last_change
  /\ repeats' = IF r.op = req.op /\ r.arg = req.arg /\ r.type = req.type
                THEN outcome ELSE "other"
  /\ calls' = <<>>
  /\ writes' = 0
  /\ reloads' = 0

\* ---------------------------------------------------------- CooldownMixin
\* timeutils.is_older_than(before, seconds)
is_older_than(before, seconds) == now - before >= seconds

\* max(0, int(self.properties['Cooldown'])), 0 when int(None) raises TypeError
cooldown_window == IF props.Cooldown = Unset THEN 0
                   ELSE IF props.Cooldown[1] > 0 THEN props.Cooldown[1] ELSE 0

\* the check with its negation lost: only a stale record suppresses
cooldown_inprogress_stale(md) ==
  /\ md # {}
  /\ cooldown_window # 0
  /\ LET last_adjust == (CHOOSE m \in md : TRUE).time
     IN  is_older_than(last_adjust, cooldown_window)

_cooldown_inprogress(md) ==
  /\ md # {}
  /\ cooldown_window # 0
  /\ LET last_adjust == (CHOOSE m \in md : TRUE).time
     IN  ~ is_older_than(last_adjust, cooldown_window)

\* the metadata that _cooldown_timestamp(reason) stores
_cooldown_timestamp(reason) == {[time |-> now, reason |-> reason]}

\* the same mixin on the ScalingPolicy: self.properties is the policy's
policy_cooldown_window ==
  IF policy.Cooldown = Unset THEN 0
  ELSE IF policy.Cooldown[1] > 0 THEN policy.Cooldown[1] ELSE 0

\* the policy consulting the cooldown of the group instead of its own
policy_cooldown_inprogress_group(md) == _cooldown_inprogress(metadata)

policy_cooldown_inprogress(md) ==
  /\ md # {}
  /\ policy_cooldown_window # 0
  /\ LET last_adjust == (CHOOSE m \in md : TRUE).time
     IN  ~ is_older_than(last_adjust, policy_cooldown_window)

\* ------------------------------------------------- InstanceGroup.resize
\* last_change once the call of p has ended: an adjust that changed the
\* recorded capacity is noted with the time and whether it returned
Ended(p, returned) ==
  IF frame[p].op # "resize" /\ Capacity(resource_id) # Capacity(rid0)
  THEN Some([time |-> now, ok |-> returned])
  ELSE last_change

\* what adjust hands back to its caller, by the exit it took: the bare
\* return of lines 216, 233, 236 and 240, and the end of the body after
\* line 244, all give None
adjust_returns(exit) ==
  CASE exit = "skipped"   -> None
    [] exit = "rejected"  -> None
    [] exit = "unchanged" -> None
    [] exit = "changed"   -> None

\* adjust returning from resize without the stamp of line 244
Return_unstamped(p) ==
  /\ UNCHANGED metadata
  /\ reported' = IF frame[p].op = "resize" THEN reported
                 ELSE reported \cup {[exit |-> "changed",
                                      value |-> adjust_returns("changed")]}
  /\ policy_metadata' =
       IF frame[p].op = "alarm"
       THEN _cooldown_timestamp(<<policy.AdjustmentType,
                                  policy.ScalingAdjustment>>)
       ELSE policy_metadata
  /\ frame' = [frame EXCEPT ![p] = IdleFrame]
  /\ outcome' = "returned"
  /\ last_change' = Ended(p, TRUE)
  /\ UNCHANGED errored

\* control leaves resize normally: a direct caller is done, adjust goes on
\* to stamp the cooldown record (line 244) and alarm, when it is the one
\* that called adjust, to stamp the record of the policy (lines 309-311)
Return(p) ==
  /\ metadata' = IF frame[p].op = "resize" THEN metadata
                 ELSE _cooldown_timestamp(<<frame[p].adjustment_type,
                                            frame[p].adjustment>>)
  /\ reported' = IF frame[p].op = "resize" THEN reported
                 ELSE reported \cup {[exit |-> "changed",
                                      value |-> adjust_returns("changed")]}
  /\ policy_metadata' =
       IF frame[p].op = "alarm"
       THEN _cooldown_timestamp(<<policy.AdjustmentType,
                                  policy.ScalingAdjustment>>)
       ELSE policy_metadata
  /\ frame' = [frame EXCEPT ![p] = IdleFrame]
  /\ outcome' = "returned"
  /\ last_change' = Ended(p, TRUE)
  /\ UNCHANGED errored

\* resize(new_capacity, raise_on_error) called directly
resize(p, new_capacity, raise_on_error) ==
  /\ ops < MaxOps
  /\ Called(p, [op |-> "resize", arg |-> new_capacity, type |-> "none",
                roe |-> raise_on_error])
  /\ frame' = [frame EXCEPT ![p] =
                 [IdleFrame EXCEPT !.pc = "resize", !.op = "resize",
                                   !.new_capacity = new_capacity,
                                   !.raise_on_error = raise_on_error]]
  /\ outcome' = "running"
  /\ adjusts' = 0
  /\ UNCHANGED <<prog, policy_metadata, reported, now, errored, last_change,
                 fails>>

\* lines 119-130 and 145: read the membership, pick no-op, grow or shrink
resize_enter(p) ==
  /\ frame[p].pc = "resize"
  /\ LET inst_list    == InstList(resource_id)
         capacity     == Len(inst_list)
         new_capacity == frame[p].new_capacity
     IN  IF new_capacity = capacity
         THEN Return(p)
         ELSE /\ frame' = [frame EXCEPT ![p] =
                   IF new_capacity > capacity
                   THEN [@ EXCEPT !.pc = "grow", !.inst_list = inst_list,
                                  !.x = capacity]
                   ELSE [@ EXCEPT !.pc = "shrink", !.inst_list = inst_list,
                                  !.victims =
                                     Reversed(SliceFrom(inst_list,
                                                        new_capacity))]]
              /\ UNCHANGED <<metadata, policy_metadata, reported, outcome,
                             errored, last_change>>
  /\ UNCHANGED <<props, policy, resource_id, exists, lb, now, fails, adjusts,
                 req, rid0, meta0, pmeta0, asked, now0, last0,
                 repeats, calls, writes,
                 reloads, ops>>

\* lines 133-136: name the new member, append it, resource_id_set
grow_record(p) ==
  /\ frame[p].pc = "grow"
  /\ LET name      == Name(frame[p].x)
         inst_list == Append(frame[p].inst_list, name)
     IN  /\ resource_id' = Join(inst_list)
         /\ frame' = [frame EXCEPT ![p] =
                        [@ EXCEPT !.pc = "create", !.inst_list = inst_list,
                                  !.cur = name]]
  /\ writes' = writes + 1
  /\ UNCHANGED <<props, policy, policy_metadata, adjusts, reported,
                 metadata, exists, lb, now, fails,
                 req, rid0, meta0, pmeta0, asked, now0, last0,
                 repeats, calls, reloads,
                 outcome, errored, last_change, ops>>

\* the loop of line 131 running over range(capacity, new_capacity + 1)
grow_create_one_more(p, ok) ==
  /\ frame[p].pc = "create"
  /\ calls' = Append(calls, [op |-> "create", name |-> frame[p].cur,
                             ok |-> ok])
  /\ exists' = IF ok THEN exists \cup {frame[p].cur} ELSE exists
  /\ fails' = IF ok THEN fails ELSE fails + 1
  /\ IF frame[p].raise_on_error /\ ~ok
     THEN /\ frame' = [frame EXCEPT ![p] = IdleFrame]
          /\ outcome' = "raised"
          /\ errored' = TRUE
          /\ last_change' = Ended(p, FALSE)
     ELSE /\ frame' = [frame EXCEPT ![p] =
                  [@ EXCEPT !.x = @ + 1,
                            !.pc = IF frame[p].x + 1 <= frame[p].new_capacity
                                   THEN "grow" ELSE "reload"]]
          /\ UNCHANGED <<outcome, errored, last_change>>
  /\ UNCHANGED <<props, policy, policy_metadata, adjusts, reported,
                 resource_id, metadata, lb, now,
                 req, rid0, meta0, pmeta0, asked, now0, last0,
                 repeats, writes, reloads,
                 ops>>

\* lines 138-142: inst.create(); raise when it failed and raise_on_error
grow_create(p, ok) ==
  /\ frame[p].pc = "create"
  /\ calls' = Append(calls, [op |-> "create", name |-> frame[p].cur,
                             ok |-> ok])
  /\ exists' = IF ok THEN exists \cup {frame[p].cur} ELSE exists
  /\ fails' = IF ok THEN fails ELSE fails + 1
  /\ IF frame[p].raise_on_error /\ ~ok
     THEN /\ frame' = [frame EXCEPT ![p] = IdleFrame]
          /\ outcome' = "raised"
          /\ errored' = TRUE
          /\ last_change' = Ended(p, FALSE)
     ELSE /\ frame' = [frame EXCEPT ![p] =
                  [@ EXCEPT !.x = @ + 1,
                            !.pc = IF frame[p].x + 1 < frame[p].new_capacity
                                   THEN "grow" ELSE "reload"]]
          /\ UNCHANGED <<outcome, errored, last_change>>
  /\ UNCHANGED <<props, policy, policy_metadata, adjusts, reported,
                 resource_id, metadata, lb, now,
                 req, rid0, meta0, pmeta0, asked, now0, last0,
                 repeats, writes, reloads,
                 ops>>

\* lines 147-148: inst.destroy() on the next victim, its result ignored
shrink_destroy(p, ok) ==
  /\ frame[p].pc = "shrink"
  /\ LET victim == Head(frame[p].victims)
     IN  /\ calls' = Append(calls, [op |-> "destroy", name |-> victim,
                                    ok |-> ok])
         /\ exists' = IF ok THEN exists \ {victim} ELSE exists
         /\ frame' = [frame EXCEPT ![p] =
                        [@ EXCEPT !.pc = "remove", !.cur = victim]]
  /\ fails' = IF ok THEN fails ELSE fails + 1
  /\ UNCHANGED <<props, policy, policy_metadata, adjusts, reported,
                 resource_id, metadata, lb, now,
                 req, rid0, meta0, pmeta0, asked, now0, last0,
                 repeats, writes, reloads,
                 outcome, errored, last_change, ops>>

\* lines 149-150: inst_list.remove(victim), resource_id_set
shrink_record(p) ==
  /\ frame[p].pc = "remove"
  /\ LET inst_list == Remove(frame[p].inst_list, frame[p].cur)
         victims   == Tail(frame[p].victims)
     IN  /\ resource_id' = Join(inst_list)
         /\ frame' = [frame EXCEPT ![p] =
                        [@ EXCEPT !.inst_list = inst_list,
                                  !.victims = victims,
                                  !.pc = IF victims = <<>> THEN "reload"
                                         ELSE "shrink"]]
  /\ writes' = writes + 1
  /\ UNCHANGED <<props, policy, policy_metadata, adjusts, reported,
                 metadata, exists, lb, now, fails,
                 req, rid0, meta0, pmeta0, asked, now0, last0,
                 repeats, calls, reloads,
                 outcome, errored, last_change, ops>>

\* inst.FnGetRefId() of the member named inst_name: the id the instance
\* is known by outside the group, one per name
FnGetRefId(inst_name) == <<"i">> \o inst_name

\* lines 156-159: the ids of the names in inst_list, in the order of the list
id_list_of(inst_list) ==
  [i \in 1..Len(inst_list) |-> FnGetRefId(inst_list[i])]

\* lines 154-162: reload every configured load balancer, then return
resize_reload(p) ==
  /\ frame[p].pc = "reload"
  /\ IF props.LoadBalancerNames # <<>>
     THEN /\ lb' = Some(id_list_of(frame[p].inst_list))
          /\ reloads' = reloads + Len(props.LoadBalancerNames)
     ELSE UNCHANGED <<lb, reloads>>
  /\ Return(p)
  /\ UNCHANGED <<props, policy, resource_id, exists, now, fails, adjusts,
                 req, rid0, meta0, pmeta0, asked, now0, last0,
                 repeats, calls, writes, ops>>

\* one step of a resize in flight
resize_step(p) ==
  \/ resize_enter(p)
  \/ grow_record(p)
  \/ \E ok \in Results : grow_create(p, ok)
  \/ \E ok \in Results : shrink_destroy(p, ok)
  \/ shrink_record(p)
  \/ resize_reload(p)

\* ------------------------------------------ InstanceGroup.handle_delete
\* lines 105-108: handle_delete() reads the members, unsorted
handle_delete(p) ==
  /\ req.op # "handle_delete"
  /\ Called(p, [op |-> "handle_delete", arg |-> 0, type |-> "none",
                roe |-> FALSE])
  /\ IF resource_id = None
     THEN /\ frame' = [frame EXCEPT ![p] = IdleFrame]
          /\ outcome' = "returned"
     ELSE /\ frame' = [frame EXCEPT ![p] =
                 [IdleFrame EXCEPT !.pc = "delete", !.op = "handle_delete",
                                   !.inst_list = Split(resource_id),
                                   !.victims = Split(resource_id)]]
          /\ outcome' = "running"
  /\ adjusts' = 0
  /\ UNCHANGED <<prog, policy_metadata, reported, now, errored, last_change,
                 fails>>

\* lines 109-116: inst.destroy() on the next victim; a failure raises, and
\* after the last victim handle_delete returns; resource_id is not written
delete_destroy(p, ok) ==
  /\ frame[p].pc = "delete"
  /\ LET victim  == Head(frame[p].victims)
         victims == Tail(frame[p].victims)
     IN  /\ calls' = Append(calls, [op |-> "destroy", name |-> victim,
                                    ok |-> ok])
         /\ exists' = IF ok THEN exists \ {victim} ELSE exists
         /\ IF ~ok
            THEN /\ frame' = [frame EXCEPT ![p] = IdleFrame]
                 /\ outcome' = "raised"
                 /\ errored' = TRUE
            ELSE IF victims = <<>>
            THEN /\ frame' = [frame EXCEPT ![p] = IdleFrame]
                 /\ outcome' = "returned"
                 /\ UNCHANGED errored
            ELSE /\ frame' = [frame EXCEPT ![p] =
                        [@ EXCEPT !.victims = victims]]
                 /\ UNCHANGED <<outcome, errored>>
  /\ fails' = IF ok THEN fails ELSE fails + 1
  /\ UNCHANGED <<props, policy, policy_metadata, adjusts, reported,
                 resource_id, metadata, lb, now, last_change,
                 req, rid0, meta0, pmeta0, asked, now0, last0, repeats,
                 writes, reloads, ops>>

\* one step of a handle_delete in flight
delete_step(p) == \E ok \in Results : delete_destroy(p, ok)

\* ------------------------------------------------------ AutoScalingGroup
AdjustmentTypes == {"ChangeInCapacity", "ExactCapacity",
                    "PercentChangeInCapacity"}
Adjustments     == {-50, -1, 1, 2, 50}

\* the percentage rounded toward zero instead
new_capacity_trunc(capacity, adjustment, adjustment_type) ==
  IF adjustment_type = "ChangeInCapacity" THEN capacity + adjustment
  ELSE IF adjustment_type = "ExactCapacity" THEN adjustment
  ELSE IF adjustment >= 0 THEN capacity + ((capacity * adjustment) \div 100)
  ELSE capacity - ((capacity * (-adjustment)) \div 100)

\* lines 223-229; '/' on two Python 2 ints is floor division
new_capacity_of(capacity, adjustment, adjustment_type) ==
  IF adjustment_type = "ChangeInCapacity" THEN capacity + adjustment
  ELSE IF adjustment_type = "ExactCapacity" THEN adjustment
  ELSE capacity + ((capacity * adjustment) \div 100)

\* the bounds check without its MinSize half
out_of_bounds_max_only(new_capacity) == new_capacity > props.MaxSize

\* lines 231-236: the adjustment is dropped, not clamped
out_of_bounds(new_capacity) ==
  \/ new_capacity > props.MaxSize
  \/ new_capacity < props.MinSize

\* adjust_body passing raise_on_error = True to every resize
adjust_body_fail_fast(p, r) ==
  /\ Called(p, r)
  /\ LET capacity     == Len(InstList(resource_id))
         new_capacity == new_capacity_of(capacity, r.arg, r.type)
         exit         == IF _cooldown_inprogress(metadata) THEN "skipped"
                         ELSE IF out_of_bounds(new_capacity) THEN "rejected"
                         ELSE IF new_capacity = capacity THEN "unchanged"
                         ELSE "resize"
     IN  IF exit # "resize"
         THEN /\ frame' = [frame EXCEPT ![p] = IdleFrame]
              /\ outcome' = "returned"
              /\ reported' = reported \cup
                               {[exit |-> exit, value |-> adjust_returns(exit)]}
         ELSE /\ frame' = [frame EXCEPT ![p] =
                   [IdleFrame EXCEPT !.pc = "resize", !.op = r.op,
                                     !.new_capacity = new_capacity,
                                     !.raise_on_error = TRUE,
                                     !.adjustment = r.arg,
                                     !.adjustment_type = r.type]]
              /\ outcome' = "running"
              /\ UNCHANGED reported
  /\ adjusts' = 1
  /\ UNCHANGED <<prog, now, errored, last_change, fails>>

\* lines 213-242, for the call recorded as r
adjust_body(p, r) ==
  /\ Called(p, r)
  /\ LET capacity     == Len(InstList(resource_id))
         new_capacity == new_capacity_of(capacity, r.arg, r.type)
         exit         == IF _cooldown_inprogress(metadata) THEN "skipped"
                         ELSE IF out_of_bounds(new_capacity) THEN "rejected"
                         ELSE IF new_capacity = capacity THEN "unchanged"
                         ELSE "resize"
     IN  IF exit # "resize"
         THEN /\ frame' = [frame EXCEPT ![p] = IdleFrame]
              /\ outcome' = "returned"
              /\ reported' = reported \cup
                               {[exit |-> exit, value |-> adjust_returns(exit)]}
         ELSE /\ frame' = [frame EXCEPT ![p] =
                   [IdleFrame EXCEPT !.pc = "resize", !.op = r.op,
                                     !.new_capacity = new_capacity,
                                     !.raise_on_error = r.roe,
                                     !.adjustment = r.arg,
                                     !.adjustment_type = r.type]]
              /\ outcome' = "running"
              /\ UNCHANGED reported
  /\ adjusts' = 1
  /\ UNCHANGED <<prog, now, errored, last_change, fails>>

\* adjust giving way to an invocation that is in flight
adjust_exclusive(p, adjustment, adjustment_type, raise_on_error) ==
  /\ 0 < ops
  /\ LET r == [op |-> "adjust", arg |-> adjustment,
               type |-> adjustment_type, roe |-> raise_on_error]
     IN  IF \E q \in Workers \ {p} : frame[q].pc # "idle"
         THEN /\ Called(p, r)
              /\ adjusts' = 1
              /\ outcome' = "returned"
              /\ UNCHANGED <<prog, frame, reported, now, errored,
                             last_change, fails>>
         ELSE adjust_body(p, r)
  /\ UNCHANGED policy_metadata

\* adjust(adjustment, adjustment_type, raise_on_error) on a created group
adjust(p, adjustment, adjustment_type, raise_on_error) ==
  /\ 0 < ops
  /\ adjust_body(p, [op |-> "adjust", arg |-> adjustment,
                     type |-> adjustment_type, roe |-> raise_on_error])
  /\ UNCHANGED policy_metadata

\* DesiredCapacity ignored
num_to_create_min == props.MinSize

\* lines 200-203: a DesiredCapacity of None or 0 is falsy
num_to_create ==
  IF props.DesiredCapacity # Unset /\ props.DesiredCapacity[1] # 0
  THEN props.DesiredCapacity[1]
  ELSE props.MinSize

\* handle_create(), the first call made on a group
handle_create(p) ==
  /\ ops = 0
  /\ adjust_body(p, [op |-> "handle_create", arg |-> num_to_create,
                     type |-> "ExactCapacity", roe |-> TRUE])
  /\ UNCHANGED policy_metadata

\* --------------------------------------------------------- ScalingPolicy
PolicyAdjustments == {-1, 1, 3}
PolicyCooldowns   == {Unset, Some(2)}

\* an AWS::AutoScaling::ScalingPolicy naming the group
ScalingPolicyProps ==
  [ScalingAdjustment : PolicyAdjustments, AdjustmentType : AdjustmentTypes,
   Cooldown : PolicyCooldowns]

\* the call that alarm makes on the group, raise_on_error at its default
policy_request == [op |-> "alarm", arg |-> policy.ScalingAdjustment,
                   type |-> policy.AdjustmentType, roe |-> FALSE]

\* alarm stamping its record although its cooldown suppressed it
alarm_stamps_always(p) ==
  /\ 0 < ops
  /\ IF policy_cooldown_inprogress(policy_metadata)
     THEN /\ Called(p, policy_request)
          /\ adjusts' = 0
          /\ outcome' = "returned"
          /\ policy_metadata' =
               _cooldown_timestamp(<<policy.AdjustmentType,
                                     policy.ScalingAdjustment>>)
          /\ UNCHANGED <<prog, frame, reported, now, errored,
                         last_change, fails>>
     ELSE /\ adjust_body(p, policy_request)
          /\ policy_metadata' =
               IF frame'[p].pc = "idle"
               THEN _cooldown_timestamp(<<policy.AdjustmentType,
                                          policy.ScalingAdjustment>>)
               ELSE policy_metadata

\* lines 295-311: alarm() on the policy of a created group; when adjust
\* goes on to resize, the stamp of lines 309-311 is made as resize returns
alarm(p) ==
  /\ 0 < ops
  /\ IF policy_cooldown_inprogress(policy_metadata)
     THEN /\ Called(p, policy_request)
          /\ adjusts' = 0
          /\ outcome' = "returned"
          /\ UNCHANGED <<prog, policy_metadata, frame, reported, now, errored,
                         last_change, fails>>
     ELSE /\ adjust_body(p, policy_request)
          /\ policy_metadata' =
               IF frame'[p].pc = "idle"
               THEN _cooldown_timestamp(<<policy.AdjustmentType,
                                          policy.ScalingAdjustment>>)
               ELSE policy_metadata

\* ------------------------------------------------------------ environment
\* time passes
Tick ==
  /\ now < MaxTime
  /\ now' = now + 1
  /\ UNCHANGED <<prog, policy_metadata, frame, hist, fails>>

\* the engine stops in the middle of a call; resource_id stays as persisted
crash(p) ==
  /\ frame[p].pc # "idle"
  /\ fails < MaxFail
  /\ fails' = fails + 1
  /\ frame' = [frame EXCEPT ![p] = IdleFrame]
  /\ outcome' = "crashed"
  /\ UNCHANGED <<prog, policy_metadata, now, req, rid0, meta0, pmeta0, asked,
                 adjusts, reported, now0, last0, repeats, calls,
                 writes, reloads, errored, last_change, ops>>

\* ------------------------------------------------------- specifications
\* an AutoScalingGroup with one invocation in flight at a time
Init == InitWith(AutoScalingGroupProps)

Next ==
  \/ handle_create(1)
  \* as ScalingPolicy.alarm calls it, raise_on_error left at its default
  \/ \E a \in Adjustments, t \in AdjustmentTypes :
        ops < MaxCalls /\ adjust(1, a, t, FALSE)
  \/ resize_step(1)
  \/ Tick

Spec == Init /\ [][Next]_vars

\* targets of the direct resize calls: small groups and groups around ten
Targets == {0, 1, 2, MaxCap - 1, MaxCap}

\* an InstanceGroup resized directly
InitResize == InitWith(InstanceGroupProps)

NextResize ==
  \/ \E k \in Targets, roe \in BOOLEAN : resize(1, k, roe)
  \/ resize_step(1)

SpecResize == InitResize /\ [][NextResize]_vars

\* the same, with the engine stopping in the middle of a resize
NextCrash ==
  \/ NextResize
  \/ crash(1)

SpecCrash == InitResize /\ [][NextCrash]_vars

\* an InstanceGroup resized directly and then deleted
NextDelete ==
  \/ \E k \in Targets, roe \in BOOLEAN :
        req.op # "handle_delete" /\ resize(1, k, roe)
  \/ resize_step(1)
  \/ handle_delete(1)
  \/ delete_step(1)

SpecDelete == InitResize /\ [][NextDelete]_vars

\* groups that a policy is aimed at
PolicyGroupProps ==
  { c \in AutoScalingGroupProps :
      /\ c.MaxSize = 3
      /\ c.DesiredCapacity = Unset
      /\ c.Cooldown \in {Unset, Some(2)} }

\* adjustments made on such a group directly, adjustment_type at its default
DirectAdjustments == {-1, 1}

\* an AutoScalingGroup with a ScalingPolicy, one invocation in flight at a
\* time
InitPolicy == InitStack(PolicyGroupProps, ScalingPolicyProps)

NextPolicy ==
  \/ handle_create(1)
  \/ ops < MaxAlarms /\ alarm(1)
  \/ \E a \in DirectAdjustments :
        ops < MaxAlarms /\ adjust(1, a, "ChangeInCapacity", FALSE)
  \/ resize_step(1)
  \/ Tick

SpecPolicy == InitPolicy /\ [][NextPolicy]_vars

\* groups that two invocations work on
SharedGroupProps ==
  { c \in AutoScalingGroupProps :
      /\ c.MinSize = 1
      /\ c.MaxSize = 3
      /\ c.DesiredCapacity = Unset
      /\ c.Cooldown = Some(2) }

\* an AutoScalingGroup whose host does not serialize the adjust calls: the
\* steps of two invocations interleave freely
InitShared == InitWith(SharedGroupProps)

NextShared ==
  \/ handle_create(1)
  \/ \E p \in Workers, a \in DirectAdjustments :
        ops < MaxAlarms /\ adjust(p, a, "ChangeInCapacity", FALSE)
  \/ \E p \in Workers : resize_step(p)
  \/ Tick

SpecShared == InitShared /\ [][NextShared]_vars

\* ----------------------------------------------------------------- claims
Idle == \A p \in Workers : frame[p].pc = "idle"

\* the names <group>-0 .. <group>-(n-1) in numeric index order
Names(n) == [i \in 1..n |-> Name(i - 1)]

Range(l) == { l[i] : i \in 1..Len(l) }

\* the membership as the group reads it back from resource_id
Members == InstList(resource_id)

\* the membership when the current call was made
Members0 == InstList(rid0)

AllOk == \A i \in 1..Len(calls) : calls[i].ok

\* C1: after resize calls that all returned without error, the recorded
\* membership read back is exactly G-0 .. G-(n-1) in numeric index order,
\* n being its current count
C1_ContiguousMembership ==
  (Idle /\ req.op = "resize" /\ outcome = "returned" /\ ~errored)
     => Members = Names(Len(Members))

\* C4: a resize(k) that repeats a completed resize(k) makes no create or
\* destroy call, no persistence write and no reload, and leaves the
\* recorded membership as it was
C4_ResizeIdempotent ==
  (req.op = "resize" /\ repeats = "returned")
     => /\ calls = <<>>
        /\ writes = 0
        /\ reloads = 0
        /\ resource_id = rid0

\* C5: a completed resize(t) on a group recording exactly the indices
\* 0 .. n-1, t < n, has destroyed G-(n-1), G-(n-2), .. G-t in that order
\* and leaves exactly the indices 0 .. t-1 recorded
C5_ShrinkHighestFirst ==
  LET n == Len(Members0)
      t == req.arg
  IN  (/\ Idle /\ req.op = "resize" /\ outcome = "returned"
       /\ Range(Members0) = Range(Names(n))
       /\ t < n)
         => /\ Len(calls) = n - t
            /\ \A i \in 1..Len(calls) :
                 calls[i].op = "destroy" /\ calls[i].name = Name(n - i)
            /\ Members = Names(t)

\* C6: a completed resize(t) on a group of n < t recorded members has
\* called create once for each of G-n .. G-(t-1), in ascending order, never
\* for a name that was already recorded, and has destroyed nothing
C6_GrowCreatesNewIndices ==
  LET n == Len(Members0)
      t == req.arg
  IN  (Idle /\ req.op = "resize" /\ outcome = "returned" /\ t > n)
         => /\ Len(calls) = t - n
            /\ \A i \in 1..Len(calls) :
                 /\ calls[i].op = "create"
                 /\ calls[i].name = Name(n + i - 1)
                 /\ calls[i].name \notin Range(Members0)

\* C7: when a grow with raise_on_error has raised, the failed create is
\* the last call made and the recorded membership is what was recorded
\* before plus the members whose creation succeeded; the member whose
\* creation failed is not recorded
C7_FailedMemberNotRecorded ==
  (Idle /\ req.op = "resize" /\ outcome = "raised")
     => /\ calls # <<>>
        /\ ~ calls[Len(calls)].ok
        /\ \A i \in 1..(Len(calls) - 1) : calls[i].ok
        /\ Range(Members) =
             Range(Members0) \cup
               { calls[i].name : i \in { j \in 1..Len(calls) : calls[j].ok } }

\* C8: a resize(t) that repeats an interrupted resize(t) and whose create
\* and destroy calls all succeed ends with exactly the indices 0 .. t-1
\* recorded and with exactly the recorded members existing
C8_ResumedResizeConverges ==
  (/\ Idle /\ req.op = "resize" /\ repeats = "crashed"
   /\ outcome = "returned" /\ AllOk)
     => /\ Members = Names(req.arg)
        /\ exists = Range(Members)

\* the call in req is an adjust, made directly or by handle_create
AdjustCalled == req.op \in {"adjust", "handle_create"}

\* the new target of that call
Target == new_capacity_of(Len(Members0), req.arg, req.type)

InBounds(n) == props.MinSize <= n /\ n <= props.MaxSize

\* that call did nothing at all
NoOp ==
  /\ Idle
  /\ outcome = "returned"
  /\ calls = <<>>
  /\ writes = 0
  /\ reloads = 0
  /\ resource_id = rid0
  /\ metadata = meta0

\* C2: an adjust whose new target is above MaxSize or below MinSize makes
\* no create or destroy call, leaves the recorded membership (and the
\* cooldown record) as they were and returns without raising
C2_OutOfBoundsRejected ==
  (AdjustCalled /\ ~InBounds(Target)) => NoOp

C2_Witness ==
  /\ req.op = "adjust"
  /\ req.type = "PercentChangeInCapacity"
  /\ Len(Members0) > 0
  /\ Target > props.MaxSize
  /\ outcome = "returned"

\* trunc(a / 100), rounding toward zero
Trunc100(a) == IF a >= 0 THEN a \div 100 ELSE -((-a) \div 100)

\* C9 as stated: the target a PercentChangeInCapacity adjust hands to
\* resize is c + trunc(c*v/100), c being the capacity when adjust was called
C9_PercentTruncates ==
  \A p \in Workers :
    (/\ frame[p].pc = "resize"
     /\ frame[p].adjustment_type = "PercentChangeInCapacity")
       => frame[p].new_capacity =
            Len(Members0) + Trunc100(Len(Members0) * frame[p].adjustment)

\* the integer q with 100*q <= a < 100*(q+1), for |a| <= 100 * MaxCap
Floor100(a) ==
  CHOOSE q \in -MaxCap..MaxCap : 100 * q <= a /\ a < 100 * (q + 1)

\* c + floor(c*v/100) for the call in req
FloorTarget == Len(Members0) + Floor100(Len(Members0) * req.arg)

\* C9 amended: the new target of a PercentChangeInCapacity adjust is
\* c + floor(c*v/100), the quotient rounded toward minus infinity: it is
\* the target handed to resize, and (no cooldown being in progress) the
\* call does something exactly when that target is within the bounds and
\* differs from c
C9_PercentFloors ==
  (/\ req.op = "adjust" /\ req.type = "PercentChangeInCapacity"
   /\ (cooldown_window = 0 \/ meta0 = {}))
     => /\ \A p \in Workers :
             frame[p].pc = "resize" => frame[p].new_capacity = FloorTarget
        /\ NoOp <=> ~(InBounds(FloorTarget) /\ FloorTarget # Len(Members0))

C9_Witness ==
  /\ frame[1].pc = "resize"
  /\ frame[1].adjustment_type = "PercentChangeInCapacity"
  /\ frame[1].adjustment < 0
  /\ (Len(Members0) * frame[1].adjustment) % 100 # 0
  /\ frame[1].new_capacity < Len(Members0)

\* handle_create has returned and every create it made succeeded
Created == Idle /\ req.op = "handle_create" /\ outcome = "returned" /\ AllOk

\* C10 as stated: a handle_create whose creates all succeed ends with
\* DesiredCapacity members if it is
\* configured, else MinSize members, at indices 0 .. capacity-1
C10_InitialCapacity ==
  Created =>
    Members = Names(IF props.DesiredCapacity # Unset
                    THEN props.DesiredCapacity[1] ELSE props.MinSize)

\* C10 amended: DesiredCapacity members when it is configured within
\* [MinSize, MaxSize]; MinSize members when it is not configured or is 0;
\* no member at all when it is non-zero and outside the bounds
C10_InitialCapacityWithinBounds ==
  LET d == props.DesiredCapacity
  IN  Created =>
        IF d = Unset \/ d = Some(0) THEN Members = Names(props.MinSize)
        ELSE IF InBounds(d[1]) THEN Members = Names(d[1])
        ELSE resource_id = None

C10_Witness ==
  /\ Created
  /\ props.DesiredCapacity = Some(2)
  /\ Members = Names(2)
  /\ Len(calls) = 2

\* time between the end of the last adjust that changed capacity and the
\* call in req
Elapsed0 == now0 - last0[1].time

\* the target of the call in req is within the bounds and not the capacity
Effective == InBounds(Target) /\ Target # Len(Members0)

\* C3: with a cooldown window > 0, an adjust made after an adjust that
\* changed capacity (and returned, so that it reached its stamp) is a
\* no-op while less than the window has elapsed since then; once the
\* window has elapsed, an in-bounds adjust to another target has changed
\* the capacity when it returns
C3_CooldownWindow ==
  (req.op = "adjust" /\ cooldown_window > 0 /\ last0 # Unset /\ last0[1].ok)
     => /\ Elapsed0 < cooldown_window => NoOp
        /\ (/\ Elapsed0 >= cooldown_window /\ Effective
            /\ Idle /\ outcome = "returned")
              => Len(Members) # Len(Members0)

\* a record md of a resource with the given cooldown window was in
\* progress when the call in req was made
InProgress0(md, window) ==
  /\ md # {}
  /\ window > 0
  /\ now0 - (CHOOSE m \in md : TRUE).time < window

PolicySuppressed0 == InProgress0(pmeta0, policy_cooldown_window)
GroupSuppressed0  == InProgress0(meta0, cooldown_window)

\* the group is as it was when the call in req was made
GroupUntouched ==
  /\ calls = <<>>
  /\ writes = 0
  /\ reloads = 0
  /\ resource_id = rid0
  /\ metadata = meta0

\* the record that the policy stamps
PolicyStamped ==
  /\ policy_metadata # {}
  /\ \A m \in policy_metadata :
       /\ m.reason = <<policy.AdjustmentType, policy.ScalingAdjustment>>
       /\ m.time >= now0

\* C11: an alarm made while the policy's own cooldown is in progress does
\* not call group.adjust and leaves the policy's record and the group as
\* they were; any other alarm calls group.adjust exactly once, with the
\* configured type and value, leaves the policy's record alone while that
\* call runs and has stamped it once it has returned; an ExactCapacity 3
\* policy on a group recording G-0 whose own cooldown is not in progress
\* ends with G-0, G-1, G-2 recorded
C11_AlarmContract ==
  req.op = "alarm" =>
    IF PolicySuppressed0
    THEN /\ Idle
         /\ adjusts = 0
         /\ policy_metadata = pmeta0
         /\ GroupUntouched
    ELSE /\ adjusts = 1
         /\ req.arg = policy.ScalingAdjustment
         /\ req.type = policy.AdjustmentType
         /\ ~Idle => policy_metadata = pmeta0
         /\ (Idle /\ outcome = "returned") => PolicyStamped
         /\ (/\ Idle /\ outcome = "returned"
             /\ req.type = "ExactCapacity" /\ req.arg = 3
             /\ Members0 = Names(1) /\ props.MaxSize >= 3
             /\ ~GroupSuppressed0)
               => Members = Names(3)

C11_Witness ==
  /\ Idle
  /\ req.op = "alarm"
  /\ policy.AdjustmentType = "ExactCapacity"
  /\ policy.ScalingAdjustment = 3
  /\ Members0 = Names(1)
  /\ Members = Names(3)
  /\ pmeta0 = {}
  /\ policy_metadata # {}

\* the three exits of adjust that a caller is to tell apart
Outcomes == {"skipped", "changed", "rejected"}

\* C12: among the adjust calls that have returned, a cooldown-suppressed
\* call, a call that changed the capacity and a call rejected by the
\* bounds check have returned pairwise different values to their callers
C12_OutcomesDistinguishable ==
  \A a \in reported, b \in reported :
    (a.exit \in Outcomes /\ b.exit \in Outcomes /\ a.exit # b.exit)
       => a.value # b.value

\* the id list most recently passed to reload; none was passed yet when
\* the group was created with no member
LbList == IF lb = Unset THEN <<>> ELSE lb[1]

\* C13: for a group with a load balancer, whenever no resize is in flight
\* the ids most recently passed to reload are exactly the ids of the
\* members recorded, also after a resize that raised
C13_LoadBalancerInSync ==
  (Idle /\ props.LoadBalancerNames # <<>>)
     => Range(LbList) = Range(id_list_of(Members))

\* a before b by index: of two names <group>-<i> the shorter has the
\* smaller index, and two of equal length compare digit by digit
IndexLess(a, b) ==
  Len(a) < Len(b) \/ (Len(a) = Len(b) /\ StrLess(a, b))

RECURSIVE InsertByIndex(_, _)
InsertByIndex(a, l) ==
  IF l = <<>> THEN <<a>>
  ELSE IF IndexLess(a, l[1]) THEN <<a>> \o l
  ELSE <<l[1]>> \o InsertByIndex(a, Tail(l))

\* the names of l by ascending index
RECURSIVE ByIndex(_)
ByIndex(l) == IF l = <<>> THEN <<>> ELSE InsertByIndex(l[1], ByIndex(Tail(l)))

\* C14: while a resize is in flight no reload has been made; a completed
\* resize that made a create or destroy call has called reload once for each
\* configured load balancer, and the list passed holds the ids of the
\* members now recorded, by ascending index
C14_ReloadOnceAfterLastChange ==
  /\ (req.op = "resize" /\ ~Idle) => reloads = 0
  /\ (Idle /\ req.op = "resize" /\ outcome = "returned" /\ calls # <<>>)
        => /\ reloads = Len(props.LoadBalancerNames)
           /\ props.LoadBalancerNames # <<>>
                => lb = Some(id_list_of(ByIndex(Members)))

\* the call in req is a resize that shrank the group and one of its
\* destroy calls failed
DestroyFailed ==
  /\ req.op = "resize"
  /\ \E i \in 1..Len(calls) : calls[i].op = "destroy" /\ ~calls[i].ok

\* C15: a resize in which a destroy call failed, with or without
\* raise_on_error, does not raise; when it has returned it has made a
\* destroy call for every member above the target, each followed by a
\* write, no victim is recorded any more and the recorded count is the
\* target
C15_DestroyFailureNotFatal ==
  DestroyFailed =>
    /\ outcome # "raised"
    /\ Idle =>
         /\ outcome = "returned"
         /\ Len(calls) = Len(Members0) - req.arg
         /\ writes = Len(calls)
         /\ \A i \in 1..Len(calls) : calls[i].name \notin Range(Members)
         /\ Len(Members) = req.arg

\* C16 as stated: the cooldown record of the group is absent until the
\* first adjust call made on the created group, so it is still absent
\* when handle_create has run; afterwards only an adjust call that went on
\* to resize changes it, a suppressed, rejected or no-change call does not
C16_RecordAbsentUntilFirstAdjust ==
  /\ req.op \in {"none", "handle_create"} => metadata = {}
  /\ (req.op = "adjust" /\ metadata # meta0) => writes > 0

\* the record that the adjust call in req stamps on the group
GroupStamped ==
  /\ metadata # {}
  /\ \A m \in metadata : m.reason = <<req.type, req.arg>> /\ m.time >= now0

\* C16 amended: the record is absent before any call; the adjust call that
\* handle_create makes counts like any other: a call that is suppressed,
\* rejected or finds the target equal to the capacity, and a call still
\* running or ended by an error, leave the record as it was, and a call
\* that went on to resize and returned has overwritten it with its own
\* type and value, so the record is present after a handle_create that
\* created members
C16_RecordStampedByResizingAdjust ==
  /\ req.op = "none" => metadata = {}
  /\ AdjustCalled =>
       IF Idle /\ outcome = "returned" /\ writes > 0
       THEN GroupStamped
       ELSE metadata = meta0

C16_Witness ==
  /\ Created
  /\ Members = Names(1)
  /\ meta0 = {}
  /\ metadata # {}

\* the call in req has created, destroyed or recorded something
TookEffect == calls # <<>> \/ writes > 0 \/ resource_id # rid0

\* C17: an alarm changes the record of the group only through a resize of
\* the group (the stamp on the policy leaves it alone); a direct adjust
\* on the group leaves the record of the policy as it was; and an alarm
\* has an effect on the group only if neither the cooldown of the policy
\* nor that of the group was in progress when it was raised
C17_IndependentCooldowns ==
  /\ (req.op = "alarm" /\ metadata # meta0) => writes > 0
  /\ req.op = "adjust" => policy_metadata = pmeta0
  /\ (req.op = "alarm" /\ TookEffect)
        => ~PolicySuppressed0 /\ ~GroupSuppressed0

C17_Witness ==
  /\ Idle
  /\ req.op = "alarm"
  /\ GroupSuppressed0
  /\ ~PolicySuppressed0
  /\ Target # Len(Members0)
  /\ InBounds(Target)
  /\ policy_metadata # pmeta0
  /\ metadata = meta0

\* the record of the group is in progress now
GroupInProgress ==
  /\ metadata # {}
  /\ cooldown_window > 0
  /\ now - (CHOOSE m \in metadata : TRUE).time < cooldown_window

\* invocation q makes an adjust call in this step while another invocation
\* is in flight; the record of the group is not in progress and the target
\* is within the bounds and not the capacity
CalledWhileBusy(q) ==
  /\ ops' = ops + 1
  /\ asked'[q].seq = ops + 1
  /\ asked'[q].op = "adjust"
  /\ \E o \in Workers \ {q} : frame[o].pc # "idle"
  /\ ~GroupInProgress
  /\ LET capacity     == Capacity(resource_id)
         new_capacity == new_capacity_of(capacity, asked'[q].arg,
                                         asked'[q].type)
     IN  InBounds(new_capacity) /\ new_capacity # capacity

\* C18: the cooldown check is not a lock: an adjust call made while
\* another invocation is in flight and has not stamped the record yet
\* passes the check like a call made alone and goes on to resize
C18_CooldownIsNoLock ==
  [][\A q \in Workers : CalledWhileBusy(q) => frame'[q].pc = "resize"]_vars

\* the membership that the call of invocation q leaves when it is made
\* alone on a group of capacity c: its target if that is within the
\* bounds, else what was there
Alone(q, c) ==
  LET new_capacity == new_capacity_of(c, asked[q].arg, asked[q].type)
  IN  IF InBounds(new_capacity) THEN Names(new_capacity) ELSE Names(c)

\* two adjust calls on a created group overlapped, no call failed, both
\* have been through resize, and the membership recorded is what neither
\* call, made alone, leaves
C18_Witness ==
  /\ Idle
  /\ ~errored
  /\ fails = 0
  /\ \E q \in Workers, o \in Workers :
       /\ q # o
       /\ asked[q].op = "adjust" /\ asked[o].op = "adjust"
       /\ asked[q].seq = asked[o].seq + 1
       /\ ~asked[o].busy
       /\ asked[q].busy
       /\ [exit |-> "changed", value |-> None] \in reported
       /\ Members # Alone(q, asked[o].capacity)
       /\ Members # Alone(o, asked[o].capacity)

\* C19: when handle_delete has ended on a group that recorded members,
\* whether or not a destroy call failed, a destroy call has been made for
\* every member that was recorded and no member is recorded any more
C19_DeleteEmptiesGroup ==
  (Idle /\ req.op = "handle_delete" /\ Members0 # <<>>)
     => /\ \A m \in Range(Members0) :
             \E i \in 1..Len(calls) :
               calls[i].op = "destroy" /\ calls[i].name = m
        /\ Members = <<>>

\* C20: with one invocation in flight at a time, the number of members
\* recorded is at most MaxSize in every state, the states inside a resize
\* included, whatever handle_create, adjust and alarm calls were made and
\* whichever create or destroy calls failed
C20_CountWithinMaxSize == Capacity(resource_id) <= props.MaxSize

C20_Witness ==
  /\ req.op = "alarm"
  /\ frame[1].pc = "create"
  /\ fails > 0
  /\ Capacity(resource_id) = props.MaxSize

\* a create call of the current invocation failed
CreateFailed ==
  \E i \in 1..Len(calls) : calls[i].op = "create" /\ ~calls[i].ok

\* C21: in a grow started by adjust or alarm, which do not ask for an
\* error to be raised, a failed create call does not stop the resize: the
\* invocation is never ended by an error, every call it makes is the create
\* of the next index, the failed ones included, and each name it tried is
\* recorded; when it has ended it has returned, a create call was made for
\* every index up to the target, the recorded count equals the target and
\* the cooldown record of the group carries the type and value of the call
C21_GrowContinuesPastFailedCreate ==
  (req.op \in {"adjust", "alarm"} /\ CreateFailed)
     => /\ outcome # "raised"
        /\ \A i \in 1..Len(calls) :
             /\ calls[i].op = "create"
             /\ calls[i].name = Name(Len(Members0) + i - 1)
             /\ calls[i].name \in Range(Members)
        /\ Idle => /\ outcome = "returned"
                   /\ Len(calls) = Target - Len(Members0)
                   /\ Len(Members) = Target
                   /\ GroupStamped

C21_Witness ==
  /\ Idle
  /\ req.op \in {"adjust", "alarm"}
  /\ outcome = "returned"
  /\ Len(calls) >= 2
  /\ ~calls[1].ok
  /\ calls[Len(calls)].ok
  /\ calls[1].name \in Range(Members)
  /\ metadata # meta0

====
